---- MODULE Spec2Model ----
(***************************************************************************)
(* ndmBridge: a Discord bot that reposts the messages of one channel as    *)
(* signed Nostr kind-1 events.  The repository holds several generations   *)
(* of the same pipeline; the model keeps them apart as "variant":          *)
(*                                                                         *)
(*   "main"    src/main.go: ECDSA, every error ignored, the handler dials  *)
(*             the relay itself, SendEvent only writes;                    *)
(*   "shared"  src/unnamed/part_002: Schnorr, one relay connection dialed  *)
(*             by main and shared by all handlers, SendEvent only writes;  *)
(*   "nostr"   the handler of part_002 publishing through the SendEvent of *)
(*             src/nostr/nostr.go (write, then read the response) on the   *)
(*             shared connection;                                          *)
(*   "permsg"  src/unnamed/part_001: PrepareMessageContent,                *)
(*             CreateNostrEvent, SignAndSendEvent, and a SendEvent that    *)
(*             dials, writes, reads and closes per message.                *)
(*                                                                         *)
(* Strings are sequences of one-character strings, so that escaping,       *)
(* replacing and pattern matching are computed character by character.     *)
(***************************************************************************)
EXTENDS Naturals, Sequences, FiniteSets

\* ------------------------------------------------------------ strings

Digits == <<"0", "1", "2", "3", "4", "5", "6", "7", "8", "9">>

HexDigits == <<"0", "1", "2", "3", "4", "5", "6", "7", "8", "9", "a", "b", "c", "d", "e", "f">>

IsDigit(c) == \E i \in 1..Len(Digits) : Digits[i] = c

IsHex(c) == \E i \in 1..Len(HexDigits) : HexDigits[i] = c

HexVal(c) == (CHOOSE i \in 1..Len(HexDigits) : HexDigits[i] = c) - 1

RECURSIVE IntToStr(_)
\* strconv-style decimal rendering of a non-negative integer
IntToStr(n) ==
    IF n < 10 THEN <<Digits[n + 1]>>
    ELSE IntToStr(n \div 10) \o <<Digits[(n % 10) + 1]>>

RECURSIVE FlattenRange(_, _, _)
\* ss[lo] \o ... \o ss[hi], halving the range
FlattenRange(ss, lo, hi) ==
    IF lo > hi THEN <<>>
    ELSE IF lo = hi THEN ss[lo]
    ELSE FlattenRange(ss, lo, (lo + hi) \div 2) \o FlattenRange(ss, ((lo + hi) \div 2) + 1, hi)

Flatten(ss) == FlattenRange(ss, 1, Len(ss))

RECURSIVE Join(_, _)
\* the elements of ss separated by sep
Join(ss, sep) ==
    IF ss = <<>> THEN <<>>
    ELSE IF Len(ss) = 1 THEN Head(ss)
    ELSE Head(ss) \o sep \o Join(Tail(ss), sep)

\* the positions of s at which old stands
Occurrences(s, old) ==
    {k \in 1..(Len(s) - Len(old) + 1) :
        old # <<>> => (s[k] = old[1] /\ SubSeq(s, k, k + Len(old) - 1) = old)}

\* strings.Index plus one: where old first stands in s, 0 if nowhere
Index(s, old) ==
    LET at == Occurrences(s, old)
    IN  IF at = {} THEN 0 ELSE CHOOSE k \in at : \A j \in at : k <= j

RECURSIVE ReplaceFrom(_, _, _)
\* leftmost, non-overlapping occurrences of old (non-empty), left to right
ReplaceFrom(s, old, new) ==
    LET k == Index(s, old)
    IN  IF k = 0 THEN s
        ELSE SubSeq(s, 1, k - 1) \o new
                \o ReplaceFrom(SubSeq(s, k + Len(old), Len(s)), old, new)

\* strings.ReplaceAll; occurrences of a single character cannot overlap, so
\* each one is replaced where it stands
ReplaceAll(s, old, new) ==
    IF Len(old) = 1
    THEN IF \A k \in 1..Len(s) : s[k] # old[1] THEN s
         ELSE Flatten([k \in 1..Len(s) |-> IF s[k] = old[1] THEN new ELSE <<s[k]>>])
    ELSE ReplaceFrom(s, old, new)

\* ------------------------------------------------------------ JSON

\* encoding/json's string escaping (escapeHTML is on for json.Marshal)
JsonChar(c) ==
    CASE c = "\"" -> <<"\\", "\"">>
      [] c = "\\" -> <<"\\", "\\">>
      [] c = "\n" -> <<"\\", "n">>
      [] c = "<"  -> <<"\\", "u", "0", "0", "3", "c">>
      [] c = ">"  -> <<"\\", "u", "0", "0", "3", "e">>
      [] c = "&"  -> <<"\\", "u", "0", "0", "2", "6">>
      [] OTHER    -> <<c>>

\* a string none of whose characters is escaped stands between the quotes as it is
JsonString(s) ==
    IF \A i \in 1..Len(s) : JsonChar(s[i]) = <<s[i]>>
    THEN <<"\"">> \o s \o <<"\"">>
    ELSE <<"\"">> \o Flatten([i \in 1..Len(s) |-> JsonChar(s[i])]) \o <<"\"">>

\* a JSON array of already encoded items
JsonArray(items) == <<"[">> \o Join(items, <<",">>) \o <<"]">>

\* []string
JsonStrings(ss) == JsonArray([i \in 1..Len(ss) |-> JsonString(ss[i])])

\* [][]string
JsonTags(tags) == JsonArray([i \in 1..Len(tags) |-> JsonStrings(tags[i])])

\* "name":
JsonKey(name) == JsonString(name) \o <<":">>

Kind == 1

\* the event as a JSON object, fields in declaration order; tagsJson is the
\* encoding of Tags ([]string in main.go, [][]string elsewhere)
JsonEvent(ev, tagsJson) ==
    <<"{">>
    \o JsonKey(<<"i", "d">>) \o JsonString(ev.ID) \o <<",">>
    \o JsonKey(<<"p", "u", "b", "k", "e", "y">>) \o JsonString(ev.Pubkey) \o <<",">>
    \o JsonKey(<<"c", "r", "e", "a", "t", "e", "d", "_", "a", "t">>) \o IntToStr(ev.CreatedAt) \o <<",">>
    \o JsonKey(<<"k", "i", "n", "d">>) \o IntToStr(ev.Kind) \o <<",">>
    \o JsonKey(<<"t", "a", "g", "s">>) \o tagsJson \o <<",">>
    \o JsonKey(<<"c", "o", "n", "t", "e", "n", "t">>) \o JsonString(ev.Content) \o <<",">>
    \o JsonKey(<<"s", "i", "g">>) \o JsonString(ev.Sig)
    \o <<"}">>

\* ------------------------------------------------------------ hex, keys

RECURSIVE DecodePairs(_, _)
\* encoding/hex Decode: the bytes decoded before the first error, and the error
DecodePairs(s, acc) ==
    IF Len(s) >= 2
    THEN IF ~IsHex(s[1]) \/ ~IsHex(s[2])
         THEN [bytes |-> acc, err |-> "InvalidByteError"]
         ELSE DecodePairs(SubSeq(s, 3, Len(s)), Append(acc, 16 * HexVal(s[1]) + HexVal(s[2])))
    ELSE IF Len(s) = 1
         THEN [bytes |-> acc, err |-> IF IsHex(s[1]) THEN "ErrLength" ELSE "InvalidByteError"]
         ELSE [bytes |-> acc, err |-> "nil"]

\* hex.DecodeString(config.Nostr.PrivKey): returns src[:n] together with the error
DecodeString(s) == DecodePairs(s, <<>>)

RECURSIVE StripZeros(_)
StripZeros(b) == IF b # <<>> /\ Head(b) = 0 THEN StripZeros(Tail(b)) ELSE b

\* btcec.PrivKeyFromBytes: the scalar read big-endian from at most 32 bytes; it
\* has no error result.  The scalar is kept as its bytes without leading zeros.
PrivKeyFromBytes(b) ==
    StripZeros(IF Len(b) > 32 THEN SubSeq(b, 1, 32) ELSE b)

IsZeroKey(k) == k = <<>>

\* sha256.Sum256 + hex.EncodeToString: the digest is named by what was hashed
ComputeEventID(serializedEvent) == <<"sha256", serializedEvent>>

\* schnorr.Sign rejects the zero private key; eventID is always a hex digest
SignEventSchnorr(eventID, privKey) ==
    IF IsZeroKey(privKey)
    THEN [sig |-> <<>>, err |-> "SigningError"]
    ELSE [sig |-> <<"schnorr", privKey, eventID>>, err |-> "nil"]

\* main.go: ecdsa.Sign over sha256(eventStr) with no check of the key
SignEvent(eventStr, privKey) ==
    [sig |-> <<"ecdsa", privKey, ComputeEventID(eventStr)>>, err |-> "nil"]

\* hex.EncodeToString: two lowercase hex digits for every byte
EncodeToString(bytes) ==
    Flatten([k \in 1..Len(bytes) |->
               <<HexDigits[(bytes[k] \div 16) + 1], HexDigits[(bytes[k] % 16) + 1]>>])

\* a number written into a field of exactly 32 bytes
Pad32(b) == [k \in 1..(32 - Len(StripZeros(b))) |-> 0] \o StripZeros(b)

\* hex.EncodeToString(sig.Serialize()): r and s in 32 bytes each
SchnorrSigHex(r, s) == EncodeToString(Pad32(r) \o Pad32(s))

\* hex.EncodeToString(append(r.Bytes(), s.Bytes()...)): big.Int.Bytes() has no
\* leading zero bytes
EcdsaSigHex(r, s) == EncodeToString(StripZeros(r) \o StripZeros(s))

\* ------------------------------------------------------------ serializers

\* nostr.go, part_002: [0,<pubkey>,<created_at>,<kind>,<tags>,<content>]
SerializeEventForID(event) ==
    JsonArray(<<
        <<"0">>,
        JsonString(event.Pubkey),
        IntToStr(event.CreatedAt),
        IntToStr(event.Kind),
        JsonTags(event.Tags),
        JsonString(event.Content) >>)

EscapedAmp == <<"\\", "u", "0", "0", "2", "6">>

\* part_001: the same array, then every escaped ampersand of the text
\* (the six characters of EscapedAmp) replaced by &
P1_SerializeEventForID(event) ==
    ReplaceAll(SerializeEventForID(event), EscapedAmp, <<"&">>)

\* main.go: the event object (id and sig still empty), then the escapes of
\* lines 165-171 applied in order; \r \t \b \f never occur in the JSON text
SerializeEvent(event) ==
    LET eventJSON == JsonEvent(event, JsonStrings(event.Tags))
        e1 == ReplaceAll(eventJSON, <<"\n">>, <<"\\", "n">>)
        e2 == ReplaceAll(e1, <<"\"">>, <<"\\", "\"">>)
        e3 == ReplaceAll(e2, <<"\\">>, <<"\\", "\\">>)
    IN  e3

\* ------------------------------------------------------------ normalizer

RECURSIVE DigitRun(_, _)
\* the number of consecutive digits of s from position from
DigitRun(s, from) ==
    IF from <= Len(s) /\ IsDigit(s[from]) THEN 1 + DigitRun(s, from + 1) ELSE 0

\* the length of the match of <prefix>[0-9]+> at the start of s, 0 if none
MatchAfter(s, prefix) ==
    LET p == Len(prefix)
        d == DigitRun(s, p + 1)
    IN  IF Len(s) >= p + 2 /\ SubSeq(s, 1, p) = prefix /\ d >= 1
           /\ p + d + 1 <= Len(s) /\ s[p + d + 1] = ">"
        THEN p + d + 1
        ELSE 0

\* the three patterns of PrepareMessageContent
MatchLen(s, pattern) ==
    CASE pattern = "channel" -> MatchAfter(s, <<"<", "#">>)
      [] pattern = "user" ->
            IF MatchAfter(s, <<"<", "@", "!">>) > 0
            THEN MatchAfter(s, <<"<", "@", "!">>)
            ELSE MatchAfter(s, <<"<", "@">>)
      [] pattern = "role" -> MatchAfter(s, <<"<", "@", "&">>)

RECURSIVE removeMentions(_, _)
\* regexp ReplaceAllString(content, ""): leftmost matches, left to right
removeMentions(content, pattern) ==
    IF content = <<>> THEN <<>>
    ELSE LET n == MatchLen(content, pattern)
         IN  IF n > 0
             THEN removeMentions(SubSeq(content, n + 1, Len(content)), pattern)
             ELSE <<Head(content)>> \o removeMentions(Tail(content), pattern)

\* a normalizer that puts the attachments in front of the text, last one first
AppendAttachments_InFront(content, urls) ==
    IF urls = <<>> THEN content
    ELSE Flatten([i \in 1..Len(urls) |->
                    ReplaceAll(urls[Len(urls) + 1 - i], EscapedAmp, <<"&">>) \o <<"\n">>])
            \o content

RECURSIVE AppendAttachments(_, _)
AppendAttachments(content, urls) ==
    IF urls = <<>> THEN content
    ELSE AppendAttachments(
            content \o <<"\n">> \o ReplaceAll(Head(urls), EscapedAmp, <<"&">>),
            Tail(urls))

PrepareMessageContent(m) ==
    LET c1 == removeMentions(m.Content, "channel")
        c2 == removeMentions(c1, "user")
        c3 == removeMentions(c2, "role")
    IN  AppendAttachments(c3, m.Attachments)

\* ------------------------------------------------------------ inputs

MaxMsgs == 2

Msgs == 1..MaxMsgs

Variants == {"main", "shared", "nostr", "permsg"}

SharedVariants == {"shared", "nostr"}

\* private keys as they may stand in config.yml
ValidKey == [k \in 1..64 |-> "a"]

ZeroKey == [k \in 1..64 |-> "0"]

BadHexKey == [k \in 1..64 |-> IF k = 64 THEN "z" ELSE "a"]

ShortKey == <<"0", "a">>

KeyInputs == {ValidKey, ZeroKey, BadHexKey, ShortKey}

GoodConfig(priv) ==
    [Token |-> <<"t">>, ChannelID |-> <<"c", "1">>, Pubkey |-> <<"a", "b">>,
     PrivKey |-> priv, RelayURL |-> <<"w", "s">>]

ConfigFields == {"Token", "ChannelID", "Pubkey", "PrivKey", "RelayURL"}

\* config.yml: unreadable, not YAML, or a Config (any field may be missing)
FileInputs ==
    {[status |-> st, cfg |-> GoodConfig(ValidKey)] : st \in {"unreadable", "malformed"}}
    \cup {[status |-> "ok", cfg |-> GoodConfig(k)] : k \in KeyInputs}
    \cup {[status |-> "ok", cfg |-> [GoodConfig(ValidKey) EXCEPT ![f] = <<>>]] : f \in ConfigFields}

BotID == "bot"

Url1 == <<"u", "?", "a", "\\", "u", "0", "0", "2", "6", "b">>

\* inbound MessageCreate events
MsgInputs ==
    { [Author |-> "user", ChannelID |-> <<"c", "1">>,
       Content |-> <<"h", "<", "@", "1", ">", "&">>, Attachments |-> <<Url1>>],
      [Author |-> "bot", ChannelID |-> <<"c", "1">>, Content |-> <<"h", "i">>, Attachments |-> <<>>],
      [Author |-> "user", ChannelID |-> <<"c", "2">>, Content |-> <<"h", "i">>, Attachments |-> <<>>],
      [Author |-> "bot", ChannelID |-> <<"c", "2">>, Content |-> <<"h", "i">>, Attachments |-> <<>>] }

\* time.Now().Unix()
Times == {1700000000}

\* ------------------------------------------------------------ state

VARIABLES
    variant,    \* which generation of the program runs
    file,       \* config.yml
    config,     \* the Config main loaded
    mainPc,     \* the number of main's steps done
    exit,       \* "none" while the process runs, else why it ended
    conn,       \* relay connections: 0 is main's, i is the one handler i dialed
    h,          \* the handler invocation of each inbound message
    call        \* one call of a function of the pipeline: its argument and result

vars == <<variant, file, config, mainPc, exit, conn, h, call>>

\* no function has been called on its own
NoCall == [fn |-> "none", arg |-> <<>>, out |-> <<>>]

\* the zero value of NostrEvent
EmptyEvent ==
    [ID |-> <<>>, Pubkey |-> <<>>, CreatedAt |-> 0, Kind |-> 0, Tags |-> <<>>,
     Content |-> <<>>, Sig |-> <<>>]

NoMsg == [Author |-> "", ChannelID |-> <<>>, Content |-> <<>>, Attachments |-> <<>>]

NoFrame == [set |-> FALSE, event |-> EmptyEvent, conn |-> 0]

\* the zero value of Config
NoConfig ==
    [Token |-> <<>>, ChannelID |-> <<>>, Pubkey |-> <<>>, PrivKey |-> <<>>, RelayURL |-> <<>>]

\* a handler invocation: its position and locals, then what it has done so far
IdleHandler ==
    [pc |-> "idle", msg |-> NoMsg, content |-> <<>>, built |-> FALSE,
     event |-> EmptyEvent, eventStr |-> <<>>, ws |-> "none", result |-> "none",
     stages |-> <<>>, keyErr |-> "nil", signErr |-> "nil", dials |-> 0, writes |-> 0,
     frame |-> NoFrame, readAfterWrite |-> FALSE, ack |-> 0, failedBefore |-> FALSE,
     brokenAtSend |-> FALSE, response |-> "none"]

\* a websocket connection and the relay behind it: frames written and not yet
\* answered (outbox), responses not yet read (inbox, each naming the message
\* whose EVENT it answers), the handlers inside WriteMessage, those whose
\* WriteMessage overlapped another's, and whether overlapping writes have
\* corrupted the byte stream
NoConn ==
    [state |-> "none", outbox |-> <<>>, inbox |-> <<>>, writing |-> {}, raced |-> {},
     corrupt |-> FALSE]

Init ==
    /\ variant \in Variants
    /\ file \in FileInputs
    /\ config = NoConfig
    /\ mainPc = 0
    /\ exit = "none"
    /\ conn = [c \in 0..MaxMsgs |-> NoConn]
    /\ h = [i \in Msgs |-> IdleHandler]
    /\ call = NoCall

\* ------------------------------------------------------------ main

\* part_002: the relay is dialed before the handler is registered
P2_mainSteps == <<"loadConfig", "New", "Dial", "AddHandler", "Open", "wait">>

\* main.go: the relay is dialed after the Discord session is open
M_mainSteps == <<"loadConfig", "New", "AddHandler", "Open", "Dial", "wait">>

\* the main of the per-message variant: it holds no relay connection
P1_mainSteps == <<"loadConfig", "New", "AddHandler", "Open", "wait">>

MainSteps ==
    CASE variant \in SharedVariants -> P2_mainSteps
      [] variant = "main" -> M_mainSteps
      [] variant = "permsg" -> P1_mainSteps

\* main's current call, once the process has not ended
AtStep(name) ==
    /\ exit = "none"
    /\ mainPc < Len(MainSteps)
    /\ MainSteps[mainPc + 1] = name

StepDone(name) == \E k \in 1..mainPc : MainSteps[k] = name

\* a loader whose validation leaves the private key out
LoadConfig_NoPrivKeyTest(f) ==
    IF f.status = "unreadable" THEN [cfg |-> NoConfig, err |-> "cannot read config file"]
    ELSE IF f.status = "malformed" THEN [cfg |-> NoConfig, err |-> "cannot unmarshal config data"]
    ELSE IF \/ f.cfg.Token = <<>> \/ f.cfg.ChannelID = <<>> \/ f.cfg.Pubkey = <<>>
            \/ f.cfg.RelayURL = <<>>
         THEN [cfg |-> NoConfig, err |-> "all fields in config.yml must be provided"]
         ELSE [cfg |-> f.cfg, err |-> "nil"]

\* loadConfig / LoadConfig: read, unmarshal, then all five fields non-empty
LoadConfig(f) ==
    IF f.status = "unreadable" THEN [cfg |-> NoConfig, err |-> "cannot read config file"]
    ELSE IF f.status = "malformed" THEN [cfg |-> NoConfig, err |-> "cannot unmarshal config data"]
    ELSE IF \/ f.cfg.Token = <<>> \/ f.cfg.ChannelID = <<>> \/ f.cfg.Pubkey = <<>>
            \/ f.cfg.PrivKey = <<>> \/ f.cfg.RelayURL = <<>>
         THEN [cfg |-> NoConfig, err |-> "all fields in config.yml must be provided"]
         ELSE [cfg |-> f.cfg, err |-> "nil"]

\* log.Fatalf: the process ends, whatever the handlers were doing
Fatalf(cause) ==
    /\ exit' = cause
    /\ UNCHANGED <<call, variant, file, config, mainPc, conn, h>>

main_loadConfig ==
    /\ AtStep("loadConfig")
    /\ LET r == LoadConfig(file)
       IN  IF r.err # "nil"
           THEN Fatalf("config")
           ELSE /\ config' = r.cfg
                /\ mainPc' = mainPc + 1
                /\ UNCHANGED <<call, variant, file, exit, conn, h>>

\* discordgo.New may return an error
main_New ==
    /\ AtStep("New")
    /\ \/ /\ mainPc' = mainPc + 1
          /\ UNCHANGED <<call, variant, file, config, exit, conn, h>>
       \/ Fatalf("session")

\* websocket.DefaultDialer.Dial in main: an error is fatal
main_Dial ==
    /\ AtStep("Dial")
    /\ \/ /\ conn' = [conn EXCEPT ![0].state = "open"]
          /\ mainPc' = mainPc + 1
          /\ UNCHANGED <<call, variant, file, config, exit, h>>
       \/ Fatalf("relay")

main_AddHandler ==
    /\ AtStep("AddHandler")
    /\ mainPc' = mainPc + 1
    /\ UNCHANGED <<call, variant, file, config, exit, conn, h>>

\* dg.Open may return an error
main_Open ==
    /\ AtStep("Open")
    /\ \/ /\ mainPc' = mainPc + 1
          /\ UNCHANGED <<call, variant, file, config, exit, conn, h>>
       \/ Fatalf("session")

\* <-stop, then the deferred ws.Close() and dg.Close()
main_Signal ==
    /\ AtStep("wait")
    /\ exit' = "signal"
    /\ conn' = [conn EXCEPT ![0].state = IF @ = "none" THEN "none" ELSE "closed"]
    /\ UNCHANGED <<call, variant, file, config, mainPc, h>>

\* the session delivers events to the registered handler while the process runs
HandlersLive == exit = "none" /\ StepDone("AddHandler") /\ StepDone("Open")

\* ------------------------------------------------------------ handler helpers

Running(i, pc) == exit = "none" /\ h[i].pc = pc

\* the handler returns
Return(r, result) == [r EXCEPT !.pc = "done", !.result = result]

Ran(r, stage) == [r EXCEPT !.stages = Append(@, stage)]

\* a handler without the test of the author
IsOwnMessage_NoTest(m) == FALSE

\* m.Author.ID == s.State.User.ID
IsOwnMessage(m) == m.Author = BotID

\* a handler without the test of the channel
IsWatchedChannel_NoTest(m, channelID) == TRUE

\* m.ChannelID == channelID
IsWatchedChannel(m, channelID) == m.ChannelID = channelID

\* the NostrEvent literal of the handlers and of CreateNostrEvent
NewEvent(pubkey, now, content) ==
    [ID |-> <<>>, Pubkey |-> pubkey, CreatedAt |-> now, Kind |-> Kind,
     Tags |-> <<>>, Content |-> content, Sig |-> <<>>]

\* ["EVENT", event] as written to connection c
Frame(event, c) == [set |-> TRUE, event |-> event, conn |-> c]

\* the outcomes of WriteMessage on connection c: a failed connection keeps failing
WriteOutcomes(c) == IF conn[c].state = "open" THEN {"nil", "error"} ELSE {"error"}

\* connection c after a WriteMessage of handler i's frame with the given outcome
AfterWrite(c, i, outcome) ==
    IF outcome = "nil"
    THEN [conn[c] EXCEPT !.outbox = Append(@, i)]
    ELSE [conn[c] EXCEPT !.state = IF @ = "open" THEN "broken" ELSE @]

\* a publisher that sends the Record as it was before it was signed
Wrote_Unsigned(r, c, outcome) ==
    [r EXCEPT !.writes = @ + 1,
              !.brokenAtSend = conn[c].state # "open",
              !.stages = Append(@, "publish"),
              !.frame = IF outcome = "nil"
                        THEN Frame([r.event EXCEPT !.Sig = <<>>], c) ELSE @]

\* handler record r after its WriteMessage
Wrote(r, c, outcome) ==
    [r EXCEPT !.writes = @ + 1,
              !.brokenAtSend = conn[c].state # "open",
              !.stages = Append(@, "publish"),
              !.frame = IF outcome = "nil" THEN Frame(r.event, c) ELSE @]

\* a discordgo event: the session runs the handler in a goroutine of its own,
\* messages are numbered in the order they arrive
Arrive(i) ==
    /\ HandlersLive
    /\ h[i].pc = "idle"
    /\ \A j \in Msgs : j < i => h[j].pc # "idle"
    /\ \E m \in MsgInputs :
          h' = [h EXCEPT ![i] = [@ EXCEPT !.pc = "entry", !.msg = m,
                    !.failedBefore = \E j \in Msgs : h[j].result = "ConnectionError"]]
    /\ UNCHANGED <<call, variant, file, config, mainPc, exit, conn>>

\* the relay answers the oldest EVENT it has not answered yet
RelayRespond(c) ==
    /\ exit = "none"
    /\ conn[c].state = "open"
    /\ conn[c].outbox # <<>>
    /\ conn' = [conn EXCEPT ![c].outbox = Tail(@),
                            ![c].inbox = Append(@, Head(conn[c].outbox))]
    /\ UNCHANGED <<call, variant, file, config, mainPc, exit, h>>

\* ------------------------------------------------------------ part_002 handler

\* the handler record once lines 105-122 have run for a message of the watched
\* channel: the event literal, SerializeEventForID (json.Marshal of strings and
\* integers returns no error), ComputeEventID
P2_NewEvent(r, pubkey, now) ==
    LET event == NewEvent(pubkey, now, r.msg.Content)
        eventStr == SerializeEventForID(event)
    IN  [r EXCEPT !.pc = "sign", !.built = TRUE, !.content = r.msg.Content,
                  !.eventStr = eventStr,
                  !.event = [event EXCEPT !.ID = ComputeEventID(eventStr)],
                  !.stages = @ \o <<"serialize", "id">>]

\* lines 99-122: the two filters, then the event and its id; nothing here
\* touches what another handler can see
P2_messageCreateHandler(i) ==
    /\ variant \in SharedVariants
    /\ Running(i, "entry")
    /\ \E now \in Times :
          h' = [h EXCEPT ![i] =
                  IF IsOwnMessage(h[i].msg) THEN Return(h[i], "ignored")
                  ELSE IF IsWatchedChannel(h[i].msg, config.ChannelID)
                       THEN P2_NewEvent(h[i], config.Pubkey, now)
                       ELSE Return(h[i], "ignored")]
    /\ UNCHANGED <<call, variant, file, config, mainPc, exit, conn>>

\* lines 124-131: the decode error is dropped, the signing error returns
P2_SignEventSchnorr(i) ==
    /\ variant \in SharedVariants
    /\ Running(i, "sign")
    /\ LET dec == DecodeString(config.PrivKey)
           privKey == PrivKeyFromBytes(dec.bytes)
           res == SignEventSchnorr(h[i].event.ID, privKey)
           r == Ran([h[i] EXCEPT !.keyErr = dec.err, !.signErr = res.err,
                                 !.event.Sig = res.sig], "sign")
       IN  h' = [h EXCEPT ![i] =
                   IF res.err # "nil" THEN Return(r, "SigningError")
                   ELSE [r EXCEPT !.pc = "send", !.ws = "main"]]
    /\ UNCHANGED <<call, variant, file, config, mainPc, exit, conn>>

\* ------------------------------------------------------------ shared connection

\* a handler enters ws.WriteMessage on connection c; nothing orders the handlers,
\* so another one may be inside it
WriteMessageBegin(c, i) ==
    [conn[c] EXCEPT !.writing = @ \cup {i},
                    !.raced = IF conn[c].writing # {} THEN @ \cup conn[c].writing \cup {i} ELSE @]

\* connection c once handler i has left WriteMessage with the given outcome
WriteMessageEnd(c, i, outcome, garbled) ==
    [AfterWrite(c, i, outcome) EXCEPT !.writing = @ \ {i}, !.raced = @ \ {i},
                                      !.corrupt = @ \/ garbled]

\* frames written while another write was under way may come out interleaved
GarbledOutcomes(c, i) == IF i \in conn[c].raced THEN BOOLEAN ELSE {FALSE}

\* the websocket package panics when it detects overlapping writes
ConcurrentWritePanic(c, i) ==
    /\ i \in conn[c].raced
    /\ exit' = "panic"
    /\ UNCHANGED <<call, variant, file, config, mainPc, conn, h>>

\* part_002 lines 133-134, 196-202: SendEvent calls ws.WriteMessage
P2_SendEvent(i) ==
    /\ variant = "shared"
    /\ Running(i, "send")
    /\ conn' = [conn EXCEPT ![0] = WriteMessageBegin(0, i)]
    /\ h' = [h EXCEPT ![i].pc = "writing"]
    /\ UNCHANGED <<call, variant, file, config, mainPc, exit>>

\* part_002 lines 202, 135-139: SendEvent returns what WriteMessage returned
P2_SendEventReturn(i) ==
    /\ variant = "shared"
    /\ Running(i, "writing")
    /\ \/ ConcurrentWritePanic(0, i)
       \/ \E outcome \in WriteOutcomes(0), garbled \in GarbledOutcomes(0, i) :
             /\ conn' = [conn EXCEPT ![0] = WriteMessageEnd(0, i, outcome, garbled)]
             /\ h' = [h EXCEPT ![i] =
                        Return(Wrote(h[i], 0, outcome),
                               IF outcome = "nil" THEN "ok" ELSE "ConnectionError")]
             /\ UNCHANGED <<call, variant, file, config, mainPc, exit>>

\* nostr.go lines 51-62: SendEvent marshals the envelope and calls ws.WriteMessage
N_SendEvent(i) ==
    /\ variant = "nostr"
    /\ Running(i, "send")
    /\ conn' = [conn EXCEPT ![0] = WriteMessageBegin(0, i)]
    /\ h' = [h EXCEPT ![i].pc = "writing"]
    /\ UNCHANGED <<call, variant, file, config, mainPc, exit>>

\* nostr.go lines 62-65: a write error returns, otherwise the response is read
N_SendEventWritten(i) ==
    /\ variant = "nostr"
    /\ Running(i, "writing")
    /\ \/ ConcurrentWritePanic(0, i)
       \/ \E outcome \in WriteOutcomes(0), garbled \in GarbledOutcomes(0, i) :
             /\ conn' = [conn EXCEPT ![0] = WriteMessageEnd(0, i, outcome, garbled)]
             /\ h' = [h EXCEPT ![i] =
                        IF outcome = "nil"
                        THEN [Wrote(h[i], 0, outcome) EXCEPT !.pc = "read"]
                        ELSE Return(Wrote(h[i], 0, outcome), "ConnectionError")]
             /\ UNCHANGED <<call, variant, file, config, mainPc, exit>>

\* the outcomes of ws.ReadMessage on connection c: the next response frame once
\* there is one; an error when the connection had failed or fails while it waits
ReadOutcomes(c) ==
    (IF conn[c].state = "open" /\ conn[c].inbox # <<>> THEN {"nil"} ELSE {})
    \cup (IF conn[c].state # "open" \/ conn[c].inbox = <<>> THEN {"error"} ELSE {})

\* connection c after a ReadMessage with the given outcome
AfterRead(c, outcome) ==
    IF outcome = "nil"
    THEN [conn[c] EXCEPT !.inbox = Tail(@)]
    ELSE [conn[c] EXCEPT !.state = IF @ = "open" THEN "broken" ELSE @]

\* the relay's own encoding of a string: it escapes quote, backslash and newline
\* and nothing else
RelayJsonString(s) ==
    <<"\"">> \o Flatten([i \in 1..Len(s) |->
                           IF s[i] \in {"<", ">", "&"} THEN <<s[i]>> ELSE JsonChar(s[i])])
             \o <<"\"">>

\* the serialization the relay hashes to verify the id of an EVENT
RelaySerialize(event) ==
    JsonArray(<<
        <<"0">>,
        RelayJsonString(event.Pubkey),
        IntToStr(event.CreatedAt),
        IntToStr(event.Kind),
        JsonTags(event.Tags),
        RelayJsonString(event.Content) >>)

\* the private key that belongs to the configured public key
OwnerKey == PrivKeyFromBytes(DecodeString(ValidKey).bytes)

\* the response frame of the relay to an EVENT: it accepts a Record whose id it
\* can reproduce and whose Schnorr signature verifies, and rejects any other
RelayResponse(event) ==
    IF /\ event.ID = ComputeEventID(RelaySerialize(event))
       /\ event.Sig = <<"schnorr", OwnerKey, event.ID>>
    THEN "accepted"
    ELSE "rejected"

\* a publisher that returns an error when the relay rejected the Record
Read_Rejection(r, c, outcome) ==
    IF outcome = "nil"
    THEN Return([r EXCEPT !.ack = Head(conn[c].inbox), !.readAfterWrite = TRUE,
                          !.response = RelayResponse(h[Head(conn[c].inbox)].frame.event)],
                IF RelayResponse(h[Head(conn[c].inbox)].frame.event) = "accepted"
                THEN "ok" ELSE "ConnectionError")
    ELSE Return(r, "ConnectionError")

\* handler record r after its ReadMessage on connection c: SendEvent logs the
\* response and returns nil, or returns the read error
Read(r, c, outcome) ==
    IF outcome = "nil"
    THEN Return([r EXCEPT !.ack = Head(conn[c].inbox), !.readAfterWrite = TRUE,
                          !.response = RelayResponse(h[Head(conn[c].inbox)].frame.event)],
                "ok")
    ELSE Return(r, "ConnectionError")

\* handler i reads connection c while another handler is inside ReadMessage on
\* it: the connection supports one reader, nothing orders the two, and the
\* bytes of a frame may be taken without either call returning it
ReadRace(c, i) ==
    /\ conn[c].state = "open"
    /\ conn[c].inbox # <<>>
    /\ \E j \in Msgs \ {i} : h[j].pc = "read"

\* nostr.go lines 67-76: block until one response frame is read, log it
N_SendEventRead(i) ==
    /\ variant = "nostr"
    /\ Running(i, "read")
    /\ \/ \E outcome \in ReadOutcomes(0) :
             /\ conn' = [conn EXCEPT ![0] = AfterRead(0, outcome)]
             /\ h' = [h EXCEPT ![i] = Read(h[i], 0, outcome)]
       \/ /\ ReadRace(0, i)
          /\ conn' = [conn EXCEPT ![0].inbox = Tail(@)]
          /\ UNCHANGED h
    /\ UNCHANGED <<call, variant, file, config, mainPc, exit>>

\* ------------------------------------------------------------ main.go handler

\* the handler record once lines 117-129 have run for a message of the watched
\* channel: the event literal, eventStr, _ := SerializeEvent(event), ComputeEventID
M_NewEvent(r, pubkey, now) ==
    LET event == NewEvent(pubkey, now, r.msg.Content)
        eventStr == SerializeEvent(event)
    IN  [r EXCEPT !.pc = "sign", !.built = TRUE, !.content = r.msg.Content,
                  !.eventStr = eventStr,
                  !.event = [event EXCEPT !.ID = ComputeEventID(eventStr)],
                  !.stages = @ \o <<"serialize", "id">>]

\* lines 101-129: own messages return; the debug dump of the message (its
\* MarshalIndent does not fail on a MessageCreate); the channel test, then the
\* event and its id
M_messageCreateHandler(i) ==
    /\ variant = "main"
    /\ Running(i, "entry")
    /\ \E now \in Times :
          h' = [h EXCEPT ![i] =
                  IF IsOwnMessage(h[i].msg) THEN Return(h[i], "ignored")
                  ELSE IF IsWatchedChannel(h[i].msg, config.ChannelID)
                       THEN M_NewEvent(h[i], config.Pubkey, now)
                       ELSE Return(h[i], "ignored")]
    /\ UNCHANGED <<call, variant, file, config, mainPc, exit, conn>>

\* lines 132-134: the decode error and the signing error are both dropped
M_SignEvent(i) ==
    /\ variant = "main"
    /\ Running(i, "sign")
    /\ LET dec == DecodeString(config.PrivKey)
           privKey == PrivKeyFromBytes(dec.bytes)
           res == SignEvent(h[i].eventStr, privKey)
       IN  h' = [h EXCEPT ![i] =
                   Ran([h[i] EXCEPT !.pc = "dial", !.keyErr = dec.err, !.signErr = res.err,
                                    !.event.Sig = res.sig], "sign")]
    /\ UNCHANGED <<call, variant, file, config, mainPc, exit, conn>>

\* line 137: ws, _, _ := Dial(...); on an error ws is nil and nothing checks it
M_Dial(i) ==
    /\ variant = "main"
    /\ Running(i, "dial")
    /\ \/ /\ conn' = [conn EXCEPT ![i].state = "open"]
          /\ h' = [h EXCEPT ![i] = [h[i] EXCEPT !.pc = "send", !.ws = "own", !.dials = @ + 1]]
       \/ /\ h' = [h EXCEPT ![i] = [h[i] EXCEPT !.pc = "send", !.ws = "nil", !.dials = @ + 1]]
          /\ UNCHANGED conn
    /\ UNCHANGED <<call, variant, file, config, mainPc, exit>>

\* lines 138-143, 196-202: SendEvent writes the frame, the handler logs an error
\* and returns, the deferred ws.Close() runs.  WriteMessage on a nil connection
\* is a nil pointer dereference: the goroutine panics and the process dies.
M_SendEvent(i) ==
    /\ variant = "main"
    /\ Running(i, "send")
    /\ IF h[i].ws = "nil"
       THEN /\ exit' = "panic"
            /\ UNCHANGED <<conn, h>>
       ELSE /\ \E outcome \in WriteOutcomes(i) :
                  /\ conn' = [conn EXCEPT ![i] = [AfterWrite(i, i, outcome) EXCEPT !.state = "closed"]]
                  /\ h' = [h EXCEPT ![i] =
                             Return(Wrote(h[i], i, outcome),
                                    IF outcome = "nil" THEN "ok" ELSE "ConnectionError")]
            /\ UNCHANGED exit
    /\ UNCHANGED <<call, variant, file, config, mainPc>>

\* ------------------------------------------------------------ part_001 pipeline

\* the handler that drives the nostr package of part_001: the two filters,
\* then PrepareMessageContent, CreateNostrEvent, SignAndSendEvent
P1_messageCreateHandler(i) ==
    /\ variant = "permsg"
    /\ Running(i, "entry")
    /\ h' = [h EXCEPT ![i] =
               IF IsOwnMessage(h[i].msg) \/ ~IsWatchedChannel(h[i].msg, config.ChannelID)
               THEN Return(h[i], "ignored")
               ELSE [h[i] EXCEPT !.pc = "prepare"]]
    /\ UNCHANGED <<call, variant, file, config, mainPc, exit, conn>>

\* lines 31-50
P1_PrepareMessageContent(i) ==
    /\ variant = "permsg"
    /\ Running(i, "prepare")
    /\ h' = [h EXCEPT ![i] =
               Ran([h[i] EXCEPT !.pc = "create", !.content = PrepareMessageContent(h[i].msg)],
                   "normalize")]
    /\ UNCHANGED <<call, variant, file, config, mainPc, exit, conn>>

\* lines 59-78: the event literal, SerializeEventForID, ComputeEventID
P1_CreateNostrEvent(i) ==
    /\ variant = "permsg"
    /\ Running(i, "create")
    /\ \E now \in Times :
          LET event == NewEvent(config.Pubkey, now, h[i].content)
              eventStr == P1_SerializeEventForID(event)
          IN  h' = [h EXCEPT ![i] =
                      [h[i] EXCEPT !.pc = "sign", !.built = TRUE, !.eventStr = eventStr,
                                   !.event = [event EXCEPT !.ID = ComputeEventID(eventStr)],
                                   !.stages = @ \o <<"serialize", "id">>]]
    /\ UNCHANGED <<call, variant, file, config, mainPc, exit, conn>>

\* lines 113-131: decode the key, sign, then SendEvent
P1_SignAndSendEvent(i) ==
    /\ variant = "permsg"
    /\ Running(i, "sign")
    /\ LET dec == DecodeString(config.PrivKey)
           privKey == PrivKeyFromBytes(dec.bytes)
           res == SignEventSchnorr(h[i].event.ID, privKey)
       IN  h' = [h EXCEPT ![i] =
                   IF dec.err # "nil"
                   THEN Return([h[i] EXCEPT !.keyErr = dec.err], "KeyDecodeError")
                   ELSE IF res.err # "nil"
                        THEN Return(Ran([h[i] EXCEPT !.signErr = res.err], "sign"), "SigningError")
                        ELSE Ran([h[i] EXCEPT !.pc = "dial", !.event.Sig = res.sig], "sign")]
    /\ UNCHANGED <<call, variant, file, config, mainPc, exit, conn>>

\* lines 155-162: SendEvent dials the relay; an error returns
P1_SendEventDial(i) ==
    /\ variant = "permsg"
    /\ Running(i, "dial")
    /\ \/ /\ conn' = [conn EXCEPT ![i].state = "open"]
          /\ h' = [h EXCEPT ![i] = [h[i] EXCEPT !.pc = "send", !.ws = "own", !.dials = @ + 1]]
       \/ /\ h' = [h EXCEPT ![i] = Return([h[i] EXCEPT !.dials = @ + 1], "ConnectionError")]
          /\ UNCHANGED conn
    /\ UNCHANGED <<call, variant, file, config, mainPc, exit>>

\* a publisher that dials again when its write failed
P1_SendEventWrite_Retry(i) ==
    /\ variant = "permsg"
    /\ Running(i, "send")
    /\ \E outcome \in WriteOutcomes(i) :
          /\ conn' = [conn EXCEPT ![i] =
                        IF outcome = "nil" THEN AfterWrite(i, i, outcome)
                        ELSE [AfterWrite(i, i, outcome) EXCEPT !.state = "closed"]]
          /\ h' = [h EXCEPT ![i] =
                     IF outcome = "nil"
                     THEN [Wrote(h[i], i, outcome) EXCEPT !.pc = "read"]
                     ELSE [Wrote(h[i], i, outcome) EXCEPT !.pc = "dial"]]
    /\ UNCHANGED <<call, variant, file, config, mainPc, exit>>

\* lines 164-176: marshal the envelope and write it; on an error the deferred
\* ws.Close() runs and the error returns
P1_SendEventWrite(i) ==
    /\ variant = "permsg"
    /\ Running(i, "send")
    /\ \E outcome \in WriteOutcomes(i) :
          /\ conn' = [conn EXCEPT ![i] =
                        IF outcome = "nil" THEN AfterWrite(i, i, outcome)
                        ELSE [AfterWrite(i, i, outcome) EXCEPT !.state = "closed"]]
          /\ h' = [h EXCEPT ![i] =
                     IF outcome = "nil"
                     THEN [Wrote(h[i], i, outcome) EXCEPT !.pc = "read"]
                     ELSE Return(Wrote(h[i], i, outcome), "ConnectionError")]
    /\ UNCHANGED <<call, variant, file, config, mainPc, exit>>

\* a publisher that closes its connection only when the read succeeded
P1_SendEventRead_NoClose(i) ==
    /\ variant = "permsg"
    /\ Running(i, "read")
    /\ \E outcome \in ReadOutcomes(i) :
          /\ conn' = [conn EXCEPT ![i] =
                        IF outcome = "nil"
                        THEN [AfterRead(i, outcome) EXCEPT !.state = "closed"]
                        ELSE AfterRead(i, outcome)]
          /\ h' = [h EXCEPT ![i] = Read(h[i], i, outcome)]
    /\ UNCHANGED <<call, variant, file, config, mainPc, exit>>

\* lines 178-186: read one response, log it, return; the deferred ws.Close() runs
P1_SendEventRead(i) ==
    /\ variant = "permsg"
    /\ Running(i, "read")
    /\ \E outcome \in ReadOutcomes(i) :
          /\ conn' = [conn EXCEPT ![i] = [AfterRead(i, outcome) EXCEPT !.state = "closed"]]
          /\ h' = [h EXCEPT ![i] = Read(h[i], i, outcome)]
    /\ UNCHANGED <<call, variant, file, config, mainPc, exit>>

\* ------------------------------------------------------------ log output

\* a log line: the format string of the call and the text its arguments print as
Line(fmt, arg) == [fmt |-> fmt, arg |-> arg]

\* how a digest prints: hex digits that tell nothing of what was hashed
DigestText == <<"#", "i", "d">>

\* how a signature prints: hex digits that tell nothing of the key
SignatureText == <<"#", "s", "i", "g">>

\* the event as json.Marshal prints it, id and sig being hex digits
EventText(event) ==
    JsonEvent([event EXCEPT !.ID = IF @ = <<>> THEN <<>> ELSE DigestText,
                            !.Sig = IF @ = <<>> THEN <<>> ELSE SignatureText],
              JsonTags(event.Tags))

\* json.Marshal([]interface{}{"EVENT", event})
EnvelopeText(event) ==
    <<"[", "\"", "E", "V", "E", "N", "T", "\"", ",">> \o EventText(event) \o <<"]">>

\* the Error() text of hex.DecodeString's error: InvalidByteError names the
\* first character that is no hex digit, ErrLength names nothing
HexErrorText(hexKey) ==
    IF \E k \in 1..Len(hexKey) : ~IsHex(hexKey[k])
    THEN <<hexKey[CHOOSE k \in 1..Len(hexKey) :
                    ~IsHex(hexKey[k]) /\ \A j \in 1..(k - 1) : IsHex(hexKey[j])]>>
    ELSE <<>>

\* a log of SignAndSendEvent that prints the key it decoded
P1_SignLines_WithKey(r) ==
    IF r.keyErr # "nil"
    THEN <<Line("Error decoding private key: %v", HexErrorText(config.PrivKey))>>
    ELSE <<Line("Private key decoded successfully", config.PrivKey)>>

\* part_001 lines 114-129, 138-149: what SignAndSendEvent and SignEventSchnorr
\* have logged for handler record r
P1_SignLines(r) ==
    IF r.keyErr # "nil"
    THEN <<Line("Error decoding private key: %v", HexErrorText(config.PrivKey))>>
    ELSE IF ~\E k \in 1..Len(r.stages) : r.stages[k] = "sign" THEN <<>>
    ELSE IF r.signErr # "nil"
    THEN <<Line("Private key decoded successfully", <<>>),
           Line("Error signing event with Schnorr: %v", <<>>),
           Line("Error signing event: %v", <<>>)>>
    ELSE <<Line("Private key decoded successfully", <<>>),
           Line("Schnorr signature created: %s", SignatureText),
           Line("Event signed with Schnorr signature: %s", SignatureText)>>

\* part_001 lines 156-184: what SendEvent has logged for handler record r
P1_SendLines(r) ==
    (IF r.dials = 0 THEN <<>>
     ELSE IF r.ws = "own" THEN <<Line("Connected to Nostr relay successfully", <<>>)>>
     ELSE <<Line("Error connecting to Nostr relay: %v", <<>>)>>)
    \o (IF r.writes = 0 THEN <<>>
        ELSE <<Line("Sending event to relay: %s", EnvelopeText(r.event))>>
             \o IF r.frame.set THEN <<>> ELSE <<Line("Error sending event: %v", <<>>)>>)
    \o (IF r.readAfterWrite
        THEN <<Line("Received response from relay: %s", <<r.response>>)>>
        ELSE IF r.frame.set /\ r.pc = "done"
        THEN <<Line("Error reading response from relay: %v", <<>>)>>
        ELSE <<>>)

\* part_001: every line the stages have logged for handler record r
P1_LogLines(r) ==
    (IF \E k \in 1..Len(r.stages) : r.stages[k] = "normalize"
     THEN <<Line("Message content prepared after removing mentions: %s", r.content)>>
     ELSE <<>>)
    \o (IF r.built
        THEN <<Line("Serialized event string: %s", r.eventStr),
               Line("Computed event ID: %s", DigestText),
               Line("Nostr event ID computed: %s", DigestText)>>
        ELSE <<>>)
    \o P1_SignLines(r)
    \o P1_SendLines(r)

\* part_002 lines 129-138, nostr.go line 74: what the handler has printed
P2_LogLines(r) ==
    (IF r.signErr # "nil" THEN <<Line("Failed to sign event: %v", <<>>)>> ELSE <<>>)
    \o (IF r.readAfterWrite
        THEN <<Line("Received response from relay: %s", <<r.response>>)>> ELSE <<>>)
    \o (IF r.result = "ConnectionError" THEN <<Line("Failed to send event: %v", <<>>)>>
        ELSE IF r.result = "ok" THEN <<Line("Event sent successfully.", <<>>)>>
        ELSE <<>>)

\* main.go lines 115, 141: the message object, then the error of SendEvent
M_LogLines(r) ==
    (IF r.pc \notin {"idle", "entry"} /\ r.msg.Author # BotID
     THEN <<Line("Full Message Object:%s", r.msg.Content)>> ELSE <<>>)
    \o (IF r.result = "ConnectionError" THEN <<Line("Failed to send event: %v", <<>>)>>
        ELSE <<>>)

\* what the handler of message i has logged so far
LogLines(i) ==
    CASE variant = "permsg" -> P1_LogLines(h[i])
      [] variant = "main" -> M_LogLines(h[i])
      [] OTHER -> P2_LogLines(h[i])

\* ------------------------------------------------------------ specification

Next ==
    \/ main_loadConfig
    \/ main_New
    \/ main_Dial
    \/ main_AddHandler
    \/ main_Open
    \/ main_Signal
    \/ \E c \in 0..MaxMsgs : RelayRespond(c)
    \/ \E i \in Msgs :
          \/ Arrive(i)
          \/ P2_messageCreateHandler(i)
          \/ P2_SignEventSchnorr(i)
          \/ P2_SendEvent(i)
          \/ P2_SendEventReturn(i)
          \/ N_SendEvent(i)
          \/ N_SendEventWritten(i)
          \/ N_SendEventRead(i)
          \/ M_messageCreateHandler(i)
          \/ M_SignEvent(i)
          \/ M_Dial(i)
          \/ M_SendEvent(i)
          \/ P1_messageCreateHandler(i)
          \/ P1_PrepareMessageContent(i)
          \/ P1_CreateNostrEvent(i)
          \/ P1_SignAndSendEvent(i)
          \/ P1_SendEventDial(i)
          \/ P1_SendEventWrite(i)
          \/ P1_SendEventRead(i)

Spec == Init /\ [][Next]_vars

\* ------------------------------------------------------------ scheduling

\* ws.ReadMessage of handler i can return: a frame waits on its connection, or
\* the connection has failed
ReadReady(i) ==
    LET c == IF variant = "permsg" THEN i ELSE 0
    IN  /\ conn[c].inbox # <<>> \/ conn[c].state # "open"
        /\ N_SendEventRead(i) \/ P1_SendEventRead(i)

\* a step of handler i inside SendEvent that waits for nothing but the
\* processor or for a call of the network that returns
HandlerStep(i) ==
    \/ N_SendEvent(i)
    \/ N_SendEventWritten(i)
    \/ P1_SendEventDial(i)
    \/ P1_SendEventWrite(i)
    \/ ReadReady(i)

\* the Go scheduler runs every goroutine that can run inside SendEvent, and the
\* relay answers every EVENT it has received on a connection that has not failed
Fairness ==
    /\ \A i \in Msgs : WF_vars(HandlerStep(i))
    /\ \A c \in 0..MaxMsgs : WF_vars(RelayRespond(c))

\* the programs whose SendEvent reads a response, started with a complete
\* config.yml
InitLive ==
    /\ Init
    /\ variant \in {"nostr", "permsg"}
    /\ file \in {[status |-> "ok", cfg |-> GoodConfig(k)] : k \in {ValidKey, ShortKey}}

NextLive ==
    \/ main_loadConfig
    \/ main_New
    \/ main_Dial
    \/ main_AddHandler
    \/ main_Open
    \/ main_Signal
    \/ \E c \in 0..MaxMsgs : RelayRespond(c)
    \/ \E i \in Msgs :
          \/ Arrive(i)
          \/ P2_messageCreateHandler(i)
          \/ P2_SignEventSchnorr(i)
          \/ N_SendEvent(i)
          \/ N_SendEventWritten(i)
          \/ N_SendEventRead(i)
          \/ P1_messageCreateHandler(i)
          \/ P1_PrepareMessageContent(i)
          \/ P1_CreateNostrEvent(i)
          \/ P1_SignAndSendEvent(i)
          \/ P1_SendEventDial(i)
          \/ P1_SendEventWrite(i)
          \/ P1_SendEventRead(i)

SpecLive == InitLive /\ [][NextLive]_vars /\ Fairness

\* ------------------------------------------------------------ single calls

MaxFrags == 3

RECURSIVE TextsOf(_, _)
\* the texts made of at most n of the given fragments
TextsOf(frags, n) ==
    IF n = 0 THEN {<<>>}
    ELSE LET shorter == TextsOf(frags, n - 1)
         IN  shorter \cup {t \o f : t \in shorter, f \in frags}

\* the author key "ab" * 32
AbKey == [k \in 1..64 |-> IF k % 2 = 1 THEN "a" ELSE "b"]

\* pieces of message content that the JSON encoder treats differently
ContentFragments ==
    { <<"h", "i">>, <<"&">>, <<"<">>, <<"\"">>, <<"\\">>, <<"\n">>, EscapedAmp }

\* the Records handed to a serializer
EventInputs ==
    { NewEvent(AbKey, now, c) : now \in Times, c \in TextsOf(ContentFragments, MaxFrags) }

\* the argument of a call: what kind of value it is, then the value
EventArg(e) ==
    [type |-> "event", event |-> e, msg |-> NoMsg, id |-> <<>>, key |-> <<>>,
     r |-> <<>>, s |-> <<>>]

\* pieces of message content around the mention markers of Discord
MentionFragments ==
    { <<"h">>, <<" ">>, <<"<", "#", "1", ">">>, <<"<", "@", "1", ">">>,
      <<"<", "@", "!", "1", ">">>, <<"<", "@", "&", "1", ">">>,
      <<"<", "#">>, <<"<", "@">>, <<"1", ">">> }

\* "hello <@123456> and <#789> and <@&42>"
HelloText ==
    <<"h", "e", "l", "l", "o", " ", "<", "@", "1", "2", "3", "4", "5", "6", ">", " ",
      "a", "n", "d", " ", "<", "#", "7", "8", "9", ">", " ", "a", "n", "d", " ",
      "<", "@", "&", "4", "2", ">">>

\* a user's message of the watched channel
UserMessage(content, attachments) ==
    [Author |-> "user", ChannelID |-> <<"c", "1">>, Content |-> content,
     Attachments |-> attachments]

MaxAttachments == 2

\* an attachment URL that holds a user marker
UrlWithMarker == <<"u", "/", "<", "@", "1", ">">>

\* attachment.URL: with an escaped ampersand, with a marker, with neither
UrlInputs == { Url1, UrlWithMarker, <<"u">> }

RECURSIVE ListsOf(_, _)
\* the lists of at most n of the given items
ListsOf(items, n) ==
    IF n = 0 THEN {<<>>}
    ELSE LET shorter == ListsOf(items, n - 1)
         IN  shorter \cup {Append(l, x) : l \in shorter, x \in items}

\* the messages handed to the normalizer
MessageInputs ==
    { UserMessage(c, <<>>) : c \in TextsOf(MentionFragments, MaxFrags) \cup {HelloText} }
    \cup { UserMessage(c, a) : c \in { <<>>, <<"h">>, <<"<", "@", "1", ">", "h">> },
                               a \in ListsOf(UrlInputs, MaxAttachments) }

MessageArg(m) ==
    [type |-> "message", event |-> EmptyEvent, msg |-> m, id |-> <<>>, key |-> <<>>,
     r |-> <<>>, s |-> <<>>]

\* the two numbers of a signature, each below the group order and so of at most
\* 32 bytes: with a first byte that is not zero, with one leading zero byte,
\* with two
ScalarInputs ==
    { [k \in 1..32 |-> 17],
      [k \in 1..32 |-> IF k = 1 THEN 0 ELSE 17],
      [k \in 1..32 |-> IF k <= 2 THEN 0 ELSE 255] }

\* the ids handed to a signer
IdInputs ==
    { ComputeEventID(SerializeEventForID(NewEvent(AbKey, now, c))) :
        now \in Times, c \in { <<"h", "i">>, <<>> } }

\* a signer's argument: the id, the private key, and the numbers r and s that
\* the signing primitive arrives at (they depend on its nonce)
SignArg(id, key, r, s) ==
    [type |-> "sign", event |-> EmptyEvent, msg |-> NoMsg, id |-> id, key |-> key,
     r |-> r, s |-> s]

SignInputs ==
    { SignArg(id, PrivKeyFromBytes(DecodeString(k).bytes), r, s) :
        id \in IdInputs, k \in {ValidKey, ZeroKey, ShortKey},
        r \in ScalarInputs, s \in ScalarInputs }

CallInputs ==
    { EventArg(e) : e \in EventInputs } \cup { MessageArg(m) : m \in MessageInputs }
    \cup SignInputs

\* a single call starts from a process that has done nothing yet
InitCalls ==
    /\ variant = "permsg"
    /\ file = [status |-> "ok", cfg |-> GoodConfig(ValidKey)]
    /\ config = NoConfig
    /\ mainPc = 0
    /\ exit = "none"
    /\ conn = [c \in 0..MaxMsgs |-> NoConn]
    /\ h = [i \in Msgs |-> IdleHandler]
    /\ call \in { [fn |-> "none", arg |-> a, out |-> <<>>] : a \in CallInputs }

\* the function fn is called on the argument and returns out
Called(fn, out) ==
    /\ call.fn = "none"
    /\ call' = [call EXCEPT !.fn = fn, !.out = out]
    /\ UNCHANGED <<variant, file, config, mainPc, exit, conn, h>>

\* nostr.go, part_002: SerializeEventForID(event)
Call_SerializeEventForID ==
    /\ call.arg.type = "event"
    /\ Called("SerializeEventForID", SerializeEventForID(call.arg.event))

\* part_001: SerializeEventForID(event)
Call_P1_SerializeEventForID ==
    /\ call.arg.type = "event"
    /\ Called("P1_SerializeEventForID", P1_SerializeEventForID(call.arg.event))

\* main.go: SerializeEvent(event)
Call_SerializeEvent ==
    /\ call.arg.type = "event"
    /\ Called("SerializeEvent", SerializeEvent(call.arg.event))

\* part_001: PrepareMessageContent(m)
Call_PrepareMessageContent ==
    /\ call.arg.type = "message"
    /\ Called("PrepareMessageContent", PrepareMessageContent(call.arg.msg))

\* part_001, part_002: SignEventSchnorr(eventID, privKey)
Call_SignEventSchnorr ==
    /\ call.arg.type = "sign"
    /\ Called("SignEventSchnorr",
              IF SignEventSchnorr(call.arg.id, call.arg.key).err # "nil"
              THEN [sig |-> <<>>, err |-> SignEventSchnorr(call.arg.id, call.arg.key).err]
              ELSE [sig |-> SchnorrSigHex(call.arg.r, call.arg.s), err |-> "nil"])

\* main.go: SignEvent(eventStr, privKey)
Call_SignEvent ==
    /\ call.arg.type = "sign"
    /\ Called("SignEvent", [sig |-> EcdsaSigHex(call.arg.r, call.arg.s), err |-> "nil"])

NextCalls ==
    \/ Call_PrepareMessageContent
    \/ Call_SignEventSchnorr
    \/ Call_SignEvent
    \/ Call_SerializeEventForID
    \/ Call_P1_SerializeEventForID
    \/ Call_SerializeEvent

SpecCalls == InitCalls /\ [][NextCalls]_vars

\* ------------------------------------------------------------ claims

Arrived(i) == h[i].pc # "idle"

\* a handler that built no Record and made no publish attempt
NothingDone(i) ==
    /\ ~h[i].built
    /\ h[i].event = EmptyEvent
    /\ h[i].stages = <<>>
    /\ h[i].ws = "none"
    /\ h[i].dials = 0
    /\ h[i].writes = 0
    /\ ~h[i].frame.set
    /\ conn[i].state = "none"
    /\ i \notin conn[0].writing

\* what the variant's serializer makes of the pre-id fields of an event
CanonicalOf(event) ==
    LET bare == [event EXCEPT !.ID = <<>>, !.Sig = <<>>]
    IN  CASE variant = "main" -> SerializeEvent(bare)
          [] variant = "permsg" -> P1_SerializeEventForID(bare)
          [] OTHER -> SerializeEventForID(bare)

\* sig is a signature made over id
SignedOver(sig, id) == Len(sig) = 3 /\ sig[3] = id

\* C1: no partial Record is published.  Every frame written to a relay
\* connection carries a Record whose id and signature are both set, the id being
\* the hash of the serialization of the Record's fields and the signature being
\* made over that id; and a message whose key decoding or signing failed has no
\* frame written.
C1_NoPartialRecord ==
    \A i \in Msgs :
        h[i].frame.set =>
            /\ h[i].frame.event.ID # <<>>
            /\ h[i].frame.event.Sig # <<>>
            /\ h[i].frame.event.ID = ComputeEventID(CanonicalOf(h[i].frame.event))
            /\ SignedOver(h[i].frame.event.Sig, h[i].frame.event.ID)
            /\ h[i].keyErr = "nil"
            /\ h[i].signErr = "nil"

\* C2: a message of another channel than the watched one builds no Record and
\* makes no publish attempt (no dial, no write), whatever the other handlers do.
C2_ChannelFilter ==
    \A i \in Msgs :
        (Arrived(i) /\ h[i].msg.ChannelID # config.ChannelID) => NothingDone(i)

\* C2 witness: a user's message of another channel has been handled while
\* another handler published a frame.
C2_Witness ==
    \E i, j \in Msgs :
        /\ i # j
        /\ h[i].pc = "done"
        /\ h[i].msg.Author # BotID
        /\ h[i].msg.ChannelID # config.ChannelID
        /\ h[j].frame.set

\* C3: a message written by the bot itself builds no Record and makes no publish
\* attempt, in the watched channel or in any other.
C3_SelfFilter ==
    \A i \in Msgs :
        (Arrived(i) /\ h[i].msg.Author = BotID) => NothingDone(i)

\* C3 witness: the bot's own messages, one of the watched channel and one of
\* another, have both been handled.
C3_Witness ==
    \E i, j \in Msgs :
        /\ h[i].pc = "done" /\ h[i].msg.Author = BotID
        /\ h[i].msg.ChannelID = config.ChannelID
        /\ h[j].pc = "done" /\ h[j].msg.Author = BotID
        /\ h[j].msg.ChannelID # config.ChannelID

\* a handler between the start of its write and the end of its read
InPublish(i) == h[i].pc \in {"writing", "read"}

\* C4: on the shared connection the write of a frame and the read of its
\* response are one critical section: no two handlers are inside it together,
\* and every response a publish call reads answers its own EVENT.
C4_WriteReadCriticalSection ==
    variant = "nostr" =>
        /\ \A i, j \in Msgs : (i # j /\ InPublish(i)) => ~InPublish(j)
        /\ \A i \in Msgs : h[i].readAfterWrite => h[i].ack = i

\* C5: a failure of the pipeline stays inside its message: the handler whose key
\* failed to decode, whose signing failed or whose dial failed returns, and no
\* handler brings the process down.
C5_FailuresStayInOneMessage ==
    /\ exit # "panic"
    /\ \A i \in Msgs :
          (h[i].keyErr # "nil" \/ h[i].signErr # "nil" \/ h[i].ws = "nil"
              \/ h[i].result = "ConnectionError")
          => h[i].pc = "done"

StageRank(stage) ==
    CASE stage = "normalize" -> 1
      [] stage = "serialize" -> 2
      [] stage = "id" -> 3
      [] stage = "sign" -> 4
      [] stage = "publish" -> 5

HasRun(i, stage) == \E k \in 1..Len(h[i].stages) : h[i].stages[k] = stage

\* C6: the stages of a message run in the order normalize, serialize, id, sign,
\* publish, none of them twice; each works on what the stage before it made (the
\* serializer on the normalized content, the deriver on the serialization, the
\* signer on the id, the publisher on the signed Record); and the Record stays
\* as it was written.
C6_StagesForward ==
    \A i \in Msgs :
        /\ \A a, b \in 1..Len(h[i].stages) :
              a < b => StageRank(h[i].stages[a]) < StageRank(h[i].stages[b])
        /\ HasRun(i, "serialize") =>
              /\ h[i].event.Content = h[i].content
              /\ h[i].eventStr = CanonicalOf(h[i].event)
        /\ HasRun(i, "id") =>
              /\ HasRun(i, "serialize")
              /\ h[i].event.ID = ComputeEventID(h[i].eventStr)
        /\ HasRun(i, "sign") =>
              /\ HasRun(i, "id")
              /\ h[i].signErr = "nil" => SignedOver(h[i].event.Sig, h[i].event.ID)
        /\ HasRun(i, "publish") => HasRun(i, "sign")
        /\ h[i].frame.set => (HasRun(i, "publish") /\ h[i].frame.event = h[i].event)

\* C6 witness: a message went through all five stages and its handler returned.
C6_Witness ==
    \E i \in Msgs :
        /\ h[i].pc = "done"
        /\ h[i].result = "ok"
        /\ h[i].stages = <<"normalize", "serialize", "id", "sign", "publish">>
        /\ h[i].frame.set

\* C7: no publish call returns success before a response frame was read after
\* its write.
C7_SuccessOnlyAfterResponseRead ==
    \A i \in Msgs :
        h[i].result = "ok" => (h[i].frame.set /\ h[i].readAfterWrite)

\* C8: a message leads to at most one frame write and at most one dial, and a
\* publish that failed on its connection is over: the handler has returned.
C8_AtMostOneWrite ==
    \A i \in Msgs :
        /\ h[i].writes <= 1
        /\ h[i].dials <= 1
        /\ h[i].result = "ConnectionError" => h[i].pc = "done"

\* C8 witness: one publish failed on its write and was not repeated, another
\* wrote its frame once and succeeded.
C8_Witness ==
    \E i, j \in Msgs :
        /\ h[i].result = "ConnectionError" /\ h[i].writes = 1 /\ ~h[i].frame.set
        /\ h[j].result = "ok" /\ h[j].writes = 1 /\ h[j].frame.set

\* C9: a message that arrives after a publish failed on its connection publishes
\* on a fresh connection of its own, one that had not failed before its write.
C9_FreshConnectionAfterFailure ==
    \A j \in Msgs :
        (h[j].failedBefore /\ h[j].writes > 0) =>
            (h[j].ws = "own" /\ ~h[j].brokenAtSend)

\* C10: the process ends on a failure only when the configuration cannot be
\* loaded or the Discord session cannot be set up.
C10_OnlyConfigAndSessionFatal ==
    exit \in {"none", "signal", "config", "session"}

\* the configured key is valid hex and decodes to the 32 bytes of a private key
KeyUsable(hexKey) ==
    /\ DecodeString(hexKey).err = "nil"
    /\ Len(DecodeString(hexKey).bytes) = 32

\* C11: when the configured private key is not valid hex or does not decode to
\* 32 bytes, the message ends with a key decoding error: its Record gets no
\* signature and no frame is written for it.
C11_KeyDecodeError ==
    \A i \in Msgs :
        (Arrived(i) /\ ~KeyUsable(config.PrivKey)) =>
            /\ h[i].event.Sig = <<>>
            /\ ~h[i].frame.set
            /\ (h[i].built /\ h[i].pc = "done") => h[i].result = "KeyDecodeError"

\* the character a \uXXXX escape of a JSON string stands for
UnicodeEscapes ==
    { <<<<"0", "0", "2", "6">>, "&">>, <<<<"0", "0", "3", "c">>, "<">>,
      <<<<"0", "0", "3", "e">>, ">">> }

RECURSIVE Unescape(_)
\* what a JSON reader makes of the inside of a string literal; ok is FALSE when
\* the text is no JSON string
Unescape(s) ==
    LET more(c, n) ==
            LET rest == Unescape(SubSeq(s, n + 1, Len(s)))
            IN  [ok |-> rest.ok, val |-> <<c>> \o rest.val]
        bad == [ok |-> FALSE, val |-> <<>>]
    IN  IF s = <<>> THEN [ok |-> TRUE, val |-> <<>>]
        ELSE IF s[1] = "\\"
        THEN IF Len(s) >= 2 /\ s[2] \in {"\"", "\\"} THEN more(s[2], 2)
             ELSE IF Len(s) >= 2 /\ s[2] = "n" THEN more("\n", 2)
             ELSE IF Len(s) >= 6 /\ s[2] = "u"
                     /\ \E e \in UnicodeEscapes : e[1] = SubSeq(s, 3, 6)
                  THEN more((CHOOSE e \in UnicodeEscapes : e[1] = SubSeq(s, 3, 6))[2], 6)
                  ELSE bad
        ELSE IF s[1] \in {"\"", "\n"} THEN bad
        ELSE more(s[1], 1)

\* the array [0,"<pubkey>",<created_at>,<kind>,[], up to its last comma, for a
\* Record with a hex author key and no tags
CanonicalHead(event) ==
    <<"[", "0", ",", "\"">> \o event.Pubkey \o <<"\"", ",">>
        \o IntToStr(event.CreatedAt) \o <<",">> \o IntToStr(event.Kind)
        \o <<",", "[", "]", ",">>

\* out is the compact six-element array of the Record's fields: the head, then a
\* JSON string that reads back as the Record's content, then the closing bracket
IsCanonicalArray(out, event) ==
    LET head == CanonicalHead(event)
        n == Len(out)
    IN  /\ n >= Len(head) + 3
        /\ SubSeq(out, 1, Len(head)) = head
        /\ out[n] = "]"
        /\ out[Len(head) + 1] = "\""
        /\ out[n - 1] = "\""
        /\ Unescape(SubSeq(out, Len(head) + 2, n - 2)).ok
        /\ Unescape(SubSeq(out, Len(head) + 2, n - 2)).val = event.Content

\* [0,"abab...ab",1700000000,1,[],"hi"]
HiVector ==
    <<"[", "0", ",", "\"">> \o AbKey
        \o <<"\"", ",", "1", "7", "0", "0", "0", "0", "0", "0", "0", "0", ",", "1", ",",
             "[", "]", ",", "\"", "h", "i", "\"", "]">>

Serializers == {"SerializeEventForID", "P1_SerializeEventForID", "SerializeEvent"}

\* C12: what a serializer returns, and so what is hashed into the id, is the
\* compact array [0, pubkey, created_at, kind, tags, content] of the Record's own
\* field values, without id or signature and with every value unaltered; for the
\* author key "ab" * 32, created_at 1700000000, no tags and content "hi" it is
\* [0,"abab...ab",1700000000,1,[],"hi"].
C12_CanonicalSerialization ==
    call.fn \in Serializers =>
        /\ IsCanonicalArray(call.out, call.arg.event)
        /\ call.arg.event.Content = <<"h", "i">> => call.out = HiVector

Patterns == {"channel", "user", "role"}

\* position k of text lies inside a channel, user or role marker of text
InMarker(text, k) ==
    \E start \in 1..k, pattern \in Patterns :
        LET n == MatchLen(SubSeq(text, start, Len(text)), pattern)
        IN  n > 0 /\ k < start + n

\* text without its markers, every other character where it was
WithoutMarkers(text) ==
    Flatten([k \in 1..Len(text) |-> IF InMarker(text, k) THEN <<>> ELSE <<text[k]>>])

\* "hello  and  and "
HelloStripped ==
    <<"h", "e", "l", "l", "o", " ", " ", "a", "n", "d", " ", " ", "a", "n", "d", " ">>

\* C13: for a message without attachments the normalizer returns the text
\* without its channel, user and role markers and with every other character in
\* place and in order; "hello <@123456> and <#789> and <@&42>" becomes
\* "hello  and  and ", and a text without markers comes back unchanged.
C13_MentionStripping ==
    (call.fn = "PrepareMessageContent" /\ call.arg.msg.Attachments = <<>>) =>
        /\ call.out = WithoutMarkers(call.arg.msg.Content)
        /\ call.arg.msg.Content = HelloText => call.out = HelloStripped
        /\ (\A k \in 1..Len(call.arg.msg.Content) : ~InMarker(call.arg.msg.Content, k))
              => call.out = call.arg.msg.Content

\* the text of a message after the three passes over its markers
Stripped(content) ==
    removeMentions(removeMentions(removeMentions(content, "channel"), "user"), "role")

\* "\n" + url for every attachment in the order given, the escaped ampersands
\* of each url turned into &
AttachmentLines(urls) ==
    Flatten([i \in 1..Len(urls) |-> <<"\n">> \o ReplaceAll(urls[i], EscapedAmp, <<"&">>)])

\* C14: the normalizer returns the mention-stripped text followed by "\n" + url
\* for every attachment in the order supplied, each url with its escaped
\* ampersands replaced by &; markers inside the urls stay.
C14_AttachmentAppending ==
    call.fn = "PrepareMessageContent" =>
        call.out = Stripped(call.arg.msg.Content) \o AttachmentLines(call.arg.msg.Attachments)

\* C14 witness: a text with a marker and two attachments, the first with an
\* escaped ampersand and the second with a marker, has been normalized.
C14_Witness ==
    /\ call.fn = "PrepareMessageContent"
    /\ call.arg.msg.Content = <<"<", "@", "1", ">", "h">>
    /\ call.arg.msg.Attachments = <<Url1, UrlWithMarker>>
    /\ call.out = <<"h", "\n", "u", "?", "a", "&", "b", "\n", "u", "/", "<", "@", "1", ">">>

\* C15: a publish call whose write and read both succeeded returns success
\* whatever the response says, a rejection included: the response is logged,
\* the handler returns, and nothing is sent or dialed again.
C15_ResponseContentIgnored ==
    \A i \in Msgs :
        h[i].readAfterWrite =>
            /\ h[i].response \in {"accepted", "rejected"}
            /\ h[i].result = "ok"
            /\ h[i].pc = "done"
            /\ h[i].writes = 1
            /\ h[i].dials <= 1

\* C15 witness: a publish call read a rejection of its Record and returned
\* success, its frame written once.
C15_Witness ==
    \E i \in Msgs :
        /\ h[i].readAfterWrite
        /\ h[i].ack = i
        /\ h[i].response = "rejected"
        /\ h[i].result = "ok"
        /\ h[i].writes = 1

\* main dials a relay connection that lives as long as the process
LongLived == \E k \in 1..Len(MainSteps) : MainSteps[k] = "Dial"

\* C16: where main holds a long-lived relay connection, that connection is
\* established once, by main, before any message can be handled; every publish
\* call writes to it; and no handler dials a connection of its own.
C16_ConnectionEstablishedOnce ==
    LongLived =>
        /\ (conn[0].state # "none") = StepDone("Dial")
        /\ \A i \in Msgs :
              /\ Arrived(i) => StepDone("Dial")
              /\ h[i].dials = 0
              /\ conn[i].state = "none"
              /\ h[i].ws \in {"none", "main"}
              /\ h[i].frame.set => h[i].frame.conn = 0

Signers == {"SignEventSchnorr", "SignEvent"}

\* C17: every signature a signer returns is 128 lowercase hex characters, for
\* every key and every id.
C17_Signature128Hex ==
    (call.fn \in Signers /\ call.out.err = "nil") =>
        /\ Len(call.out.sig) = 128
        /\ \A k \in 1..Len(call.out.sig) : IsHex(call.out.sig[k])

\* part stands somewhere in text
Contains(text, part) ==
    /\ part # <<>>
    /\ \E k \in 1..(Len(text) - Len(part) + 1) :
          text[k] = part[1] /\ SubSeq(text, k, k + Len(part) - 1) = part

\* the Record of message i as it is without any private key: the fields of the
\* event literal and the id over them
KeylessRecord(i) ==
    LET content == IF variant = "permsg" THEN PrepareMessageContent(h[i].msg)
                   ELSE h[i].msg.Content
        event == NewEvent(config.Pubkey, h[i].frame.event.CreatedAt, content)
    IN  [event EXCEPT !.ID = ComputeEventID(CanonicalOf(event))]

\* C18: the private key does not leave the signer: no log line of a handler and
\* no frame written to the relay holds the configured private key, and a frame
\* without its signature is the Record made of the message, the public key and
\* the time alone, the same whatever the private key is.
C18_PrivateKeyStaysInside ==
    \A i \in Msgs :
        /\ LET lines == LogLines(i)
           IN  \A k \in 1..Len(lines) : ~Contains(lines[k].arg, config.PrivKey)
        /\ h[i].frame.set =>
              /\ ~Contains(EnvelopeText(h[i].frame.event), config.PrivKey)
              /\ [h[i].frame.event EXCEPT !.Sig = <<>>] = KeylessRecord(i)

\* C18 witness: the per-message pipeline signed a Record, logged every stage
\* and wrote the frame.
C18_Witness ==
    \E i \in Msgs :
        /\ variant = "permsg"
        /\ h[i].frame.set
        /\ h[i].result = "ok"
        /\ config.PrivKey = ValidKey
        /\ Len(LogLines(i)) = 10

\* every one of the five fields of cfg holds something
AllFieldsPresent(cfg) == \A f \in ConfigFields : cfg[f] # <<>>

\* nothing was started: no handler registered, no message handled, no relay
\* connection opened
NothingStarted ==
    /\ mainPc = 0
    /\ ~StepDone("AddHandler")
    /\ \A i \in Msgs : h[i] = IdleHandler
    /\ \A c \in 0..MaxMsgs : conn[c] = NoConn

\* C19: loading succeeds only when the file is read and parsed and all five
\* fields are non-empty, and then yields the file's configuration; when a field
\* is absent the loader returns an error, and the process that ended on a load
\* error, or that has a file with an absent field, has registered no handler and
\* opened no relay connection.
C19_ConfigAllOrNothing ==
    /\ LoadConfig(file).err = "nil" <=> (file.status = "ok" /\ AllFieldsPresent(file.cfg))
    /\ mainPc >= 1 => /\ LoadConfig(file).err = "nil"
                      /\ config = file.cfg
                      /\ AllFieldsPresent(config)
    /\ (exit = "config" \/ ~AllFieldsPresent(file.cfg)) => NothingStarted
    /\ (mainPc = 0 /\ exit # "none") => exit = "config" /\ LoadConfig(file).err # "nil"

\* C19 witness: the file is readable YAML with the private key absent, and the
\* process has ended on the load error.
C19_Witness ==
    /\ file.status = "ok"
    /\ file.cfg.PrivKey = <<>>
    /\ file.cfg.Token # <<>>
    /\ exit = "config"

\* C20: a handler that has written its EVENT frame eventually returns, with
\* success or with a connection error, unless the process is stopped by a
\* signal, when the relay answers every EVENT it received on a connection that
\* has not failed; for every number of handlers that publish at once.
C20_InFlightPublishReturns ==
    \A i \in Msgs :
        h[i].frame.set ~>
            \/ h[i].pc = "done" /\ h[i].result \in {"ok", "ConnectionError"}
            \/ exit = "signal"

\* the text of the normalizer's output: what stands before the appended
\* attachment lines
TextPart(out, urls) == SubSeq(out, 1, Len(out) - Len(AttachmentLines(urls)))

\* text holds a channel, user or role marker
HasMarker(text) == \E k \in 1..Len(text) : InMarker(text, k)

\* C21: for every input text, the text part of the normalizer's output holds no
\* channel, user or role marker: after the channel pass, the user pass and the
\* role pass no marker is left to be published.
C21_NoMarkerRemains ==
    call.fn = "PrepareMessageContent" =>
        ~HasMarker(TextPart(call.out, call.arg.msg.Attachments))

\* the programs whose handlers dial a connection of their own
PerMessageVariants == {"permsg", "main"}

\* connection c is up or has failed, and was not closed
NotClosed(c) == conn[c].state \in {"open", "broken"}

\* C22: in the programs that dial per message, a handler that has returned has
\* left no connection of its own unclosed, whether it returned with success or
\* after a dial, write or read failure; a connection a handler opened is
\* unclosed only while that handler is inside its publish, so once every
\* handler has returned none is left.
C22_ConnectionClosedOnReturn ==
    variant \in PerMessageVariants =>
        \A i \in Msgs :
            /\ h[i].pc = "done" => ~NotClosed(i)
            /\ (h[i].pc = "done" /\ h[i].ws = "own") => conn[i].state = "closed"
            /\ NotClosed(i) => h[i].pc \in {"send", "read"} /\ h[i].ws = "own"

\* C22 witness: in the per-message program every handler has returned, one
\* with success after its read and one with a connection error after a write
\* on the connection it had opened, and both connections are closed.
C22_Witness ==
    /\ variant = "permsg"
    /\ \A i \in Msgs : h[i].pc = "done"
    /\ \E i, j \in Msgs :
          /\ h[i].result = "ok" /\ h[i].readAfterWrite /\ conn[i].state = "closed"
          /\ h[j].result = "ConnectionError" /\ h[j].writes = 1 /\ h[j].ws = "own"
          /\ conn[j].state = "closed"

====
